---- MODULE Spec2Model ----
(***************************************************************************)
(* Model of drifter (src/src/main.rs): the car's per-tick integration      *)
(* step, the camera that follows it and the Level scene that decodes the   *)
(* input and drives both.                                                  *)
(*                                                                         *)
(* Numbers.  The program computes in f64.  The model computes in fixed     *)
(* point: lengths and speeds in units of 1/Scale, rotation matrix entries  *)
(* in units of 1/RotScale, angles in units of 1/AngScale radian.  Every    *)
(* multiplication rounds its result to the nearest unit, ties to even, as  *)
(* an f64 operation rounds to the nearest representable value.  The        *)
(* resolution is coarser than that of f64; the constants of the program    *)
(* (0.1, 0.5, 0.96, 0.98, 0.95, 0.2, 0.005) are exact in it.               *)
(***************************************************************************)
EXTENDS Integers, Sequences, FiniteSets

VARIABLES
  car,       \* Level.car
  camera,    \* Level.camera.pos
  keys,      \* the held keys the last Level::update read
  events,    \* the events the last Level::update polled
  pedal,     \* the CarPedal the last Level::update decoded
  steering,  \* the CarSteering the last Level::update decoded
  result,    \* what the last Level::update returned: "Ok", "Err", "none" before the first
  ticks,     \* Car::update calls so far
  before,    \* history: the car as the last Car::update found it
  changes    \* environment: times the held keys changed so far (SpecRun)

vars ==
  <<car, camera, keys, events, pedal, steering, result, ticks, before, changes>>

\* ------------------------------------------------------------- bounds
MaxTicks == 3        \* Spec: Level::update calls of one run
MaxEvents == 1       \* Spec: events polled by one Level::update call
MaxRunTicks == 15    \* SpecRun: Level::update calls of one run
MaxKeyChanges == 1   \* SpecRun: times the held keys change during one run
MaxIdleTicks == 48   \* SpecIdle: Level::update calls of one run
MaxBrakeTicks == 5   \* SpecBrake: Level::update calls of one run
BrakeGrid == 50      \* SpecBrake: spacing of the initial wheel speeds

\* ------------------------------------------------------- fixed point
Scale == 1000
RotScale == 10000
AngScale == 100000

Abs(x) == IF x < 0 THEN -x ELSE x

\* n / d, rounded to the nearest integer, ties to even (d > 0).
RoundDiv(n, d) ==
  LET q == (2 * n + d) \div (2 * d)
  IN IF (2 * n + d) % (2 * d) = 0 /\ q % 2 # 0 THEN q - 1 ELSE q

\* x * (num / den): one f64 multiplication by a constant.
Mul(x, num, den) == RoundDiv(x * num, den)

RECURSIVE ISqrt(_)
ISqrt(n) ==
  IF n < 2 THEN n
  ELSE LET s == 2 * ISqrt(n \div 4)
       IN IF (s + 1) * (s + 1) > n THEN s ELSE s + 1

VecAdd(a, b) == <<a[1] + b[1], a[2] + b[2]>>
VecSub(a, b) == <<a[1] - b[1], a[2] - b[2]>>

\* Vector2::magnitude
Magnitude(v) == ISqrt(v[1] * v[1] + v[2] * v[2])

\* A Rotation2 is the matrix [c -s; s c], kept as <<c, s>>.
\* Rotation2::new(angle): cos and sin by their Taylor polynomials.
RotationNew(a) ==
  LET a2 == RoundDiv(a * a, AngScale)
      a3 == RoundDiv(a2 * a, AngScale)
      a4 == RoundDiv(a2 * a2, AngScale)
      c == AngScale - RoundDiv(a2, 2) + RoundDiv(a4, 24)
      s == a - RoundDiv(a3, 6)
  IN <<RoundDiv(c * RotScale, AngScale), RoundDiv(s * RotScale, AngScale)>>

\* Rotation2 * Rotation2
RotMul(r, q) ==
  <<RoundDiv(r[1] * q[1] - r[2] * q[2], RotScale),
    RoundDiv(r[2] * q[1] + r[1] * q[2], RotScale)>>

\* Rotation2::inverse (the transpose)
RotInverse(r) == <<r[1], -r[2]>>

\* Rotation2 * Vector2
RotVec(r, v) ==
  <<RoundDiv(r[1] * v[1] - r[2] * v[2], RotScale),
    RoundDiv(r[2] * v[1] + r[1] * v[2], RotScale)>>

\* ---------------------------------------------------------------- Car
dimensions == <<50 * Scale, 100 * Scale>>
acceleration == 100
max_speed == 1000
max_backwards_speed == 0 - 5000
brake_snap == 100

HalfDimensions == <<dimensions[1] \div 2, dimensions[2] \div 2>>

CarNew ==
  [pos |-> <<1000 * Scale, 700 * Scale>>,
   rotation |-> RotationNew(0),
   velocity |-> <<0, 0>>,
   wheel_speed |-> 0]

\* Car::center
Center(c) == VecAdd(c.pos, HalfDimensions)

\* Mutant of Clamp: the clamp is left out.
ClampNone(x, lo, hi) == x

\* f64::clamp
Clamp(x, lo, hi) == IF x < lo THEN lo ELSE IF x > hi THEN hi ELSE x

\* Mutant of Drive: Backward accelerates backwards instead of braking.
DriveReverse(p, w) ==
  IF p = "Forward" THEN Clamp(w + acceleration, max_backwards_speed, max_speed)
  ELSE IF p = "Backward"
       THEN Clamp(w - acceleration, max_backwards_speed, max_speed)
       ELSE w

\* Mutant of Drive: the braked speed is never snapped to 0.
DriveNoSnap(p, w) ==
  IF p = "Forward" THEN Clamp(w + acceleration, max_backwards_speed, max_speed)
  ELSE IF p = "Backward" THEN Mul(w, 5, 10) ELSE w

\* Mutant of Drive: the snap compares the absolute value.
DriveAbsSnap(p, w) ==
  IF p = "Forward" THEN Clamp(w + acceleration, max_backwards_speed, max_speed)
  ELSE IF p = "Backward"
       THEN LET h == Mul(w, 5, 10) IN IF Abs(h) < brake_snap THEN 0 ELSE h
       ELSE w

\* Car::update, the pedal: wheel_speed after lines 91-104.
Drive(p, w) ==
  IF p = "Forward" THEN Clamp(w + acceleration, max_backwards_speed, max_speed)
  ELSE IF p = "Backward"
       THEN LET h == Mul(w, 5, 10) IN IF h < brake_snap THEN 0 ELSE h
       ELSE w

\* Car::update, the steering: rotation after lines 106-113.
Steer(s, c) ==
  LET rotation_strength == Abs(Magnitude(RotVec(c.rotation, c.velocity)))
      angle == Mul(rotation_strength, 5 * (AngScale \div 1000), Scale)
  IN IF s = "Left" THEN RotMul(c.rotation, RotationNew(-angle))
     ELSE IF s = "Right" THEN RotMul(c.rotation, RotationNew(angle))
     ELSE c.rotation

\* Car::update, lines 106 and 113: pos is moved by half the dimensions and back.
Pivot(c) == VecAdd(VecSub(c.pos, HalfDimensions), HalfDimensions)

\* The local velocity after `local_velocity.y -= self.wheel_speed` (line 119).
LocalDriven(rot, v, w) ==
  LET local == RotVec(RotInverse(rot), v) IN <<local[1], local[2] - w>>

\* Mutant of LocalFriction: no friction.
LocalFrictionNone(l) == l

\* The local velocity after both frictions (lines 122 and 125).
LocalFriction(l) == <<Mul(l[1], 95, 100), Mul(l[2], 98, 100)>>

\* Mutant of WheelFriction: the wheel keeps its speed.
WheelFrictionNone(w) == w

\* wheel_speed after `self.wheel_speed *= 0.98 - vertical_friction` (line 121).
WheelFriction(w) == Mul(w, 96, 100)

\* Car::update
CarUpdate(c, p, s) ==
  LET w == Drive(p, c.wheel_speed)
      rot == Steer(s, c)
      pos == Pivot(c)
      local == LocalFriction(LocalDriven(rot, c.velocity, w))
      velocity == RotVec(rot, local)
  IN [pos |-> VecAdd(pos, velocity),
      rotation |-> rot,
      velocity |-> velocity,
      wheel_speed |-> WheelFriction(w)]

\* ------------------------------------------------------------- Camera
CameraNew == <<1000 * Scale, 700 * Scale>>

\* Mutant of Lerp: t = 1.2, past the target.
LerpOvershoot(p, c) ==
  <<Mul(c[1], 12, 10) - Mul(p[1], 2, 10), Mul(c[2], 12, 10) - Mul(p[2], 2, 10)>>

\* Vector::lerp(rhs, t) = rhs * t + self * (1 - t), with t = 0.2
Lerp(p, c) ==
  <<Mul(c[1], 2, 10) + Mul(p[1], 8, 10), Mul(c[2], 2, 10) + Mul(p[2], 8, 10)>>

\* Camera::update
CameraUpdate(cam, c) == Lerp(cam, Center(c))

\* -------------------------------------------------------------- Level
Keys == {"W", "A", "S", "D"}
EventKinds == {"Quit", "KeyDownEscape", "KeyDownQ", "KeyDownW", "KeyUpQ"}

\* Mutant of IsQuit: the Q key is not a quit key.
IsQuitNoQ(e) == e \in {"Quit", "KeyDownEscape"}

\* The first arm of the match in Level::update.
IsQuit(e) == e \in {"Quit", "KeyDownEscape", "KeyDownQ"}

HasQuit(evs) == \E i \in 1..Len(evs) : IsQuit(evs[i])

\* The events the poll loop takes: all of them, or up to the first quit.
Polled(evs) ==
  IF HasQuit(evs)
  THEN SubSeq(evs, 1, CHOOSE i \in 1..Len(evs) :
                        IsQuit(evs[i]) /\ \A j \in 1..(i - 1) : ~IsQuit(evs[j]))
  ELSE evs

\* Mutant of DecodePedal: S is looked at before W.
DecodePedalBrakeFirst(k) ==
  IF "S" \in k THEN "Backward" ELSE IF "W" \in k THEN "Forward" ELSE "None"

\* Level::update, lines 193-199.
DecodePedal(k) ==
  IF "W" \in k THEN "Forward" ELSE IF "S" \in k THEN "Backward" ELSE "None"

\* Level::update, lines 200-210.
DecodeSteering(k) ==
  IF "A" \in k /\ "D" \notin k THEN "Left"
  ELSE IF "D" \in k /\ "A" \notin k THEN "Right"
  ELSE "None"

Init ==
  /\ car = CarNew
  /\ camera = CameraNew
  /\ keys = {}
  /\ events = <<>>
  /\ pedal = "None"
  /\ steering = "None"
  /\ result = "none"
  /\ ticks = 0
  /\ before = car
  /\ changes = 0

\* Level::update when the polled events hold a quit: Err, and main's loop ends.
LevelUpdateQuit(evs) ==
  /\ result # "Err"
  /\ HasQuit(evs)
  /\ events' = Polled(evs)
  /\ result' = "Err"
  /\ UNCHANGED <<car, camera, keys, pedal, steering, ticks, before>>

\* Mutant of LevelUpdateTick: the camera is updated before the car.
LevelUpdateTickCameraFirst(evs, k) ==
  /\ result # "Err"
  /\ ~HasQuit(evs)
  /\ events' = Polled(evs)
  /\ keys' = k
  /\ pedal' = DecodePedal(k)
  /\ steering' = DecodeSteering(k)
  /\ before' = car
  /\ camera' = CameraUpdate(camera, car)
  /\ car' = CarUpdate(car, pedal', steering')
  /\ result' = "Ok"
  /\ ticks' = ticks + 1

\* Level::update otherwise: decode the held keys, Car::update, Camera::update, Ok.
LevelUpdateTick(evs, k) ==
  /\ result # "Err"
  /\ ~HasQuit(evs)
  /\ events' = Polled(evs)
  /\ keys' = k
  /\ pedal' = DecodePedal(k)
  /\ steering' = DecodeSteering(k)
  /\ before' = car
  /\ car' = CarUpdate(car, pedal', steering')
  /\ camera' = CameraUpdate(camera, car')
  /\ result' = "Ok"
  /\ ticks' = ticks + 1

RECURSIVE SeqsUpTo(_, _)
SeqsUpTo(S, n) ==
  IF n = 0 THEN {<<>>}
  ELSE LET shorter == SeqsUpTo(S, n - 1)
       IN shorter \cup {Append(s, e) : s \in shorter, e \in S}

EventBatches == SeqsUpTo(EventKinds, MaxEvents)

\* The whole program: any events, any held keys, MaxTicks frames.
Quit ==
  \E evs \in EventBatches :
    ticks < MaxTicks /\ LevelUpdateQuit(evs) /\ UNCHANGED changes
Tick ==
  \E evs \in EventBatches, k \in SUBSET Keys :
    ticks < MaxTicks /\ LevelUpdateTick(evs, k) /\ UNCHANGED changes

Next == Quit \/ Tick

Spec == Init /\ [][Next]_vars

\* Long runs: no events, and the held keys change at most MaxKeyChanges times.
RunTick ==
  \E k \in SUBSET Keys :
    /\ ticks < MaxRunTicks
    /\ k = keys \/ changes < MaxKeyChanges
    /\ changes' = IF k = keys THEN changes ELSE changes + 1
    /\ LevelUpdateTick(<<>>, k)

SpecRun == Init /\ [][RunTick]_vars

\* A car that is never driven: W is never held.
IdleTick ==
  \E k \in SUBSET (Keys \ {"W"}) :
    ticks < MaxIdleTicks /\ LevelUpdateTick(<<>>, k) /\ UNCHANGED changes

SpecIdle == Init /\ [][IdleTick]_vars

\* Braking from any wheel speed of [-5, max_speed]: S is held on every frame.
BrakeSpeeds ==
  {w \in max_backwards_speed..max_speed : w % BrakeGrid = 0}

InitBrake ==
  /\ car \in {[CarNew EXCEPT !.wheel_speed = w] : w \in BrakeSpeeds}
  /\ camera = CameraNew
  /\ keys = {}
  /\ events = <<>>
  /\ pedal = "None"
  /\ steering = "None"
  /\ result = "none"
  /\ ticks = 0
  /\ before = car
  /\ changes = 0

BrakeTick ==
  ticks < MaxBrakeTicks /\ LevelUpdateTick(<<>>, {"S"}) /\ UNCHANGED changes

SpecBrake == InitBrake /\ [][BrakeTick]_vars

\* ============================================================ claims

\* The squared magnitude of a vector.
Norm2(v) == v[1] * v[1] + v[2] * v[2]

\* C1: in every state reached from Car::new() by Car::update calls, wheel_speed
\* lies in [-5.0, max_speed]; holding Forward never takes it above max_speed.
C1_WheelSpeedInRange ==
  /\ car.wheel_speed >= max_backwards_speed
  /\ car.wheel_speed <= max_speed

\* C1, its case: Forward on a wheel speed within one acceleration of max_speed;
\* the clamp cut it to max_speed, and the friction of the same tick took 4% off.
C1_Witness ==
  /\ pedal = "Forward"
  /\ before.wheel_speed + acceleration > max_speed
  /\ car.wheel_speed = 960

\* C10: in every state reached from Car::new() by Car::update calls, wheel_speed
\* is not negative: Backward brakes and never reverses.
C10_WheelSpeedNotNegative == car.wheel_speed >= 0

\* C10, its case: Backward on a car that Forward had set rolling.
C10_Witness ==
  /\ pedal = "Backward"
  /\ before.wheel_speed > 0
  /\ car.velocity # <<0, 0>>
  /\ car.wheel_speed >= 0

\* C5: Level::update decodes one Pedal and one Steering from the held keys:
\* Forward if W (S or not), Backward if S without W, None otherwise; Left if A
\* without D, Right if D without A, None if both or neither.
C5_Decode ==
  result = "Ok" =>
    /\ pedal \in {"Forward", "Backward", "None"}
    /\ steering \in {"Left", "Right", "None"}
    /\ ("W" \in keys) <=> (pedal = "Forward")
    /\ ("S" \in keys /\ "W" \notin keys) <=> (pedal = "Backward")
    /\ ("A" \in keys /\ "D" \notin keys) <=> (steering = "Left")
    /\ ("D" \in keys /\ "A" \notin keys) <=> (steering = "Right")
    /\ (("A" \in keys) <=> ("D" \in keys)) <=> (steering = "None")

\* C5, its case: all four keys held; W wins over S, and A and D cancel.
C5_Witness ==
  /\ result = "Ok"
  /\ keys = {"W", "A", "S", "D"}
  /\ pedal = "Forward"
  /\ steering = "None"

\* C3: a Level::update whose polled events hold a Quit or a key-down of Escape
\* or Q returns Err and leaves car and camera as they were; after an Err no
\* further step is taken.
C3_QuitStops ==
  [][/\ result # "Err"
     /\ (\E i \in 1..Len(events') :
           events'[i] \in {"Quit", "KeyDownEscape", "KeyDownQ"})
          <=> (result' = "Err")
     /\ result' = "Err" =>
          /\ car' = car
          /\ camera' = camera
          /\ ticks' = ticks
          /\ before' = before]_vars

\* C3, its case: a Q key-down ended a run whose car had already moved.
C3_Witness ==
  /\ result = "Err"
  /\ events # <<>>
  /\ events[Len(events)] = "KeyDownQ"
  /\ car.pos # CarNew.pos

\* C4: a Level::update that sees no quit is one tick: Car::update once, then
\* Camera::update once, the camera reading the center the car has after
\* `pos += velocity`, not the one it had before the tick.
C4_OneTickCarThenCamera ==
  [][result' = "Ok" =>
       /\ ticks' = ticks + 1
       /\ before' = car
       /\ car' = CarUpdate(car, pedal', steering')
       /\ camera' = Lerp(camera, Center(car'))
       /\ car'.pos # car.pos => camera' # Lerp(camera, Center(car))]_vars

\* C4, its case: a tick that moved the car.
C4_Witness ==
  /\ result = "Ok"
  /\ car.pos # before.pos
  /\ camera # CameraNew

\* C2: Backward on every tick, from any wheel_speed of [-5, max_speed], has
\* wheel_speed at exactly 0 after at most 4 ticks, and it stays 0 while Backward
\* is held.
C2_BrakingConverges ==
  /\ [](ticks >= 4 => car.wheel_speed = 0)
  /\ [][car.wheel_speed = 0 => car'.wheel_speed = 0]_vars

\* C2, its case: the fourth Backward tick in a row took a wheel that still
\* turned, at 0.1 or more, to 0.
C2_Witness ==
  /\ ticks = 4
  /\ pedal = "Backward"
  /\ before.wheel_speed >= brake_snap
  /\ car.wheel_speed = 0

C8_FirstForwardTickAsStated ==
  (ticks = 1 /\ pedal = "Forward" /\ steering = "None") =>
    /\ car.wheel_speed = 100
    /\ car.velocity = <<0, 0 - 98>>
    /\ car.pos = <<1000000, 700000 - 98>>

\* C8 as amended: one Car::update(Forward, None) from Car::new() takes
\* wheel_speed to 0.1 in the pedal step and leaves it at 0.096 (the friction
\* step multiplies it by 0.96); the local velocity is (0, -0.1) before friction
\* and (0, -0.098) after; the world velocity is the same, the rotation being
\* the identity; pos.y goes down by 0.098 and pos.x stays.
C8_FirstForwardTick ==
  (ticks = 1 /\ pedal = "Forward" /\ steering = "None") =>
    /\ before = CarNew
    /\ Drive(pedal, before.wheel_speed) = 100
    /\ car.wheel_speed = 96
    /\ LocalDriven(car.rotation, before.velocity, 100) = <<0, 0 - 100>>
    /\ LocalFriction(<<0, 0 - 100>>) = <<0, 0 - 98>>
    /\ car.rotation = <<RotScale, 0>>
    /\ car.velocity = <<0, 0 - 98>>
    /\ car.pos = <<1000000, 700000 - 98>>

\* C8, its case: the first tick, W held and no steering.
C8_Witness ==
  /\ ticks = 1
  /\ keys = {"W"}
  /\ pedal = "Forward"
  /\ steering = "None"
  /\ before = CarNew
  /\ car.wheel_speed = 96

\* A tick of Car::update(None, None).
Coasted == result = "Ok" /\ pedal = "None" /\ steering = "None"

\* C6 as stated: a tick with no pedal and no steering, on a car whose velocity
\* is not near zero, leaves |velocity| strictly smaller.
C6_CoastingSlowsAsStated ==
  (Coasted /\ Norm2(before.velocity) > 25 * 25) =>
    Norm2(car.velocity) < Norm2(before.velocity)

\* C6 as amended: a tick with no pedal and no steering on a car whose
\* wheel_speed is 0 never raises |velocity|, and leaves it strictly smaller
\* unless the velocity is near zero.
C6_CoastingSlowsOnceWheelStopped ==
  (Coasted /\ before.wheel_speed = 0) =>
    /\ Norm2(car.velocity) <= Norm2(before.velocity)
    /\ Norm2(before.velocity) > 25 * 25 =>
         Norm2(car.velocity) < Norm2(before.velocity)

\* C6, its case: a car set rolling and braked to wheel_speed 0 coasts, slower
\* after the tick than before.
C6_Witness ==
  /\ Coasted
  /\ before.wheel_speed = 0
  /\ Norm2(before.velocity) > 25 * 25
  /\ Norm2(car.velocity) < Norm2(before.velocity)

\* From the camera to the car's center.
Gap(cam, c) == VecSub(Center(c), cam)

\* |g| > |h| for vectors g and h, as |g|^2 - |h|^2 > 0.
Longer(g, h) ==
  (g[1] - h[1]) * (g[1] + h[1]) + (g[2] - h[2]) * (g[2] + h[2]) > 0

\* A tick that left the car's center where it was.
StillTick == ticks' = ticks + 1 /\ Center(car') = Center(car)

====
